---- MODULE Spec2Model ----
(***************************************************************************)
(* LOCALAID backend: the user and service-listing handlers of              *)
(* controllers/userController.js, controllers/authController.js and        *)
(* controllers/serviceController.js over the Mongoose models User and      *)
(* Service.  A stored document is a record (a function from field names    *)
(* to values); a field that is undefined is absent from the record's       *)
(* domain.  The collections are sequences: the _id of a document is its    *)
(* position, so ids are handed out in creation order.                      *)
(***************************************************************************)
EXTENDS Integers, Sequences, FiniteSets, TLC

VARIABLES users, services, req, res, procs

vars == <<users, services, req, res, procs>>

(***************************************************************************)
(* Bounds of the model.                                                    *)
(***************************************************************************)
MaxUsers == 2
MaxServices == 1
MaxProcs == 2

UserIds == 1..MaxUsers
ServiceIds == 1..MaxServices
Procs == 1..MaxProcs

(***************************************************************************)
(* Generic helpers on documents and request bodies.                        *)
(***************************************************************************)
Has(b, f) == f \in DOMAIN b

\* JavaScript truthiness of a string-valued body field: absent and "" are falsy.
StrTruthy(b, f) == Has(b, f) /\ b[f] # ""

\* JavaScript truthiness of a sequence-valued field (the email): a missing or
\* empty value is falsy.
SeqTruthy(b, f) == Has(b, f) /\ b[f] # <<>>

\* The record b restricted to the fields in fs.
Pick(b, fs) == [f \in (DOMAIN b) \cap fs |-> b[f]]

\* The record b without the fields in fs.
Omit(b, fs) == [f \in (DOMAIN b) \ fs |-> b[f]]

\* $set of the fields of upd on the stored document doc.
SetFields(doc, upd) == upd @@ doc

EmptyDoc == [f \in {} |-> f]

\* The update document Mongoose sends for the object handed to
\* findByIdAndUpdate: the top-level keys are sugar for $set and are merged
\* into a $set operator the object carries itself (a top-level key wins).
CastUpdate(updates) ==
  IF Has(updates, "$set") THEN Omit(updates, {"$set"}) @@ updates["$set"] ELSE updates

(***************************************************************************)
(* Text values are sequences of one-character strings, so that the         *)
(* String methods the code applies (toLowerCase, trim) are computed.       *)
(***************************************************************************)
LowerChar(c) ==
  CASE c = "A" -> "a"
    [] c = "B" -> "b"
    [] OTHER -> c

ToLowerCase(s) == [i \in DOMAIN s |-> LowerChar(s[i])]

RECURSIVE TrimStart(_)
TrimStart(s) == IF s # <<>> /\ Head(s) = " " THEN TrimStart(Tail(s)) ELSE s

RECURSIVE TrimEnd(_)
TrimEnd(s) ==
  IF s # <<>> /\ s[Len(s)] = " " THEN TrimEnd(SubSeq(s, 1, Len(s) - 1)) ELSE s

Trim(s) == TrimEnd(TrimStart(s))

\* express.json() hands the handler whatever JSON value the client sent.  The
\* JSON number 123456 in the place of a text field is this value: truthy, not
\* a string, and without a length.
JsonNumber == <<"number">>

IsString(v) == v # JsonNumber

\* The cast of a String path: a number becomes its decimal text.
CastString(v) == IF v = JsonNumber THEN <<"1", "2", "3", "4", "5", "6">> ELSE v

(***************************************************************************)
(* models/User.js: schema, pre-save hook and instance methods.             *)
(***************************************************************************)
NombreMaxLength == 50
PasswordMinLength == 6
Roles == {"oferente", "solicitante"}
PhoneChars == {"0", "1", "2", "3", "4", "5", "6", "7", "8", "9", "+", "-", " ", "(", ")"}

\* bcrypt.hash(plain, salt): a value that is neither the plaintext nor the
\* hash of anything else; bcrypt.compare(candidate, hash) recomputes it.
BcryptHash(plain) == <<"$2a$12$">> \o plain

\* Variant of comparePassword that accepts every candidate.
comparePasswordAny(doc, candidatePassword) == TRUE

comparePassword(doc, candidatePassword) == doc.password = BcryptHash(candidatePassword)

\* bcrypt.compare rejects ("Illegal arguments") when the candidate is not a
\* string; the rejection surfaces in the caller's catch block.
comparePasswordThrows(candidatePassword) == ~IsString(candidatePassword)

\* validator of ubicacion.coordinates (shared shape of both schemas)
CoordsValid(coords) ==
  \/ Len(coords) = 0
  \/ /\ Len(coords) = 2
     /\ coords[1] >= -180 /\ coords[1] <= 180
     /\ coords[2] >= -90 /\ coords[2] <= 90

\* The defaults of the nested path ubicacion, applied to a new document that
\* was given no location: type 'Point', and the empty array every array
\* path starts with.
UbicacionDefault == [type |-> "Point", coordinates |-> <<>>]

WithUbicacionDefault(d) ==
  IF Has(d, "ubicacion") THEN d ELSE ("ubicacion" :> UbicacionDefault) @@ d

\* The 2dsphere index on ubicacion: the store extracts the geo keys of a
\* document whose ubicacion is a GeoJSON point with a longitude and a
\* latitude, or that has no ubicacion; it rejects the write of any other
\* ("Can't extract geo keys").
GeoKeysExtractable(d) ==
  Has(d, "ubicacion")
  => /\ Len(d.ubicacion.coordinates) = 2
     /\ d.ubicacion.coordinates[1] >= -180 /\ d.ubicacion.coordinates[1] <= 180
     /\ d.ubicacion.coordinates[2] >= -90 /\ d.ubicacion.coordinates[2] <= 90

\* The paths of the schema; strict mode drops any other key of an update.
UserPaths == {"nombre", "email", "password", "telefono", "rol", "skills", "ubicacion",
              "fechaRegistro"}

\* The schema setters applied when a path is set: trim on nombre, email and
\* telefono, lowercase on email.
UserSetters(d) ==
  [f \in DOMAIN d |->
     CASE f = "nombre" -> Trim(d[f])
       [] f = "email" -> ToLowerCase(Trim(d[f]))
       [] f = "telefono" -> Trim(d[f])
       [] f = "password" -> CastString(d[f])
       [] OTHER -> d[f]]

\* The schema validators of the paths present in d (required paths are
\* checked by UserValid, which looks at the whole document).
UserPathsValid(d) ==
  /\ Has(d, "nombre") => (d.nombre # <<>> /\ Len(d.nombre) <= NombreMaxLength)
  /\ Has(d, "email") => d.email # <<>>
  /\ Has(d, "password") => Len(d.password) >= PasswordMinLength
  /\ Has(d, "telefono") => \A i \in DOMAIN d.telefono : d.telefono[i] \in PhoneChars
  /\ Has(d, "rol") => d.rol \in Roles
  /\ Has(d, "ubicacion") => CoordsValid(d.ubicacion.coordinates)

\* Document validation on save: required paths and the validators.
UserValid(d) ==
  /\ {"nombre", "email", "password", "rol"} \subseteq DOMAIN d
  /\ UserPathsValid(d)

\* pre('save'): the password is hashed when it was modified.
PreSaveHash(d, passwordModified) ==
  IF passwordModified THEN [d EXCEPT !.password = BcryptHash(d.password)] ELSE d

\* Variant of EmailTaken for a collection without the unique index.
EmailTakenNever(email, id) == FALSE

\* The unique index on email: an insert or update of document id with
\* this email is rejected with code 11000 when another document holds it.
EmailTaken(email, id) ==
  \E i \in DOMAIN users : i # id /\ users[i].email = email

\* Variant of toJSON that serializes the whole document.
toJSONWithPassword(d) == d

\* methods.toJSON: the document without its password.
toJSON(d) == Omit(d, {"password"})

\* select('-password')
SelectNoPassword(d) == Omit(d, {"password"})

(***************************************************************************)
(* Responses: res.status(code).json({success, message, data}).             *)
(***************************************************************************)
Response(code, message, data) == [code |-> code, message |-> message, data |-> data]

\* A message is a sequence of its parts: the fixed text, then the values
\* the handler interpolates into it.
Fail(code, text) == Response(code, <<text>>, EmptyDoc)

Ok(code, text, data) == Response(code, <<text>>, data)

(***************************************************************************)
(* models/Service.js: schema and instance methods.                         *)
(***************************************************************************)
TituloMaxLength == 100
DescripcionMaxLength == 1000
Categorias == {"hogar", "jardineria", "limpieza", "reparaciones", "transporte",
               "tecnologia", "educacion", "salud", "deportes", "eventos", "otro"}
Estados == {"pendiente", "en progreso", "completado"}
Monedas == {"MXN", "USD", "EUR"}
UnidadesDuracion == {"horas", "dias", "semanas"}
PrecioMin == 0
DuracionMin == 1

\* The paths of the schema; strict mode drops any other key of an update.
ServicePaths == {"titulo", "descripcion", "categoria", "estado", "creadoPor", "ubicacion",
                 "precio", "moneda", "duracionEstimada", "unidadDuracion"}

\* Schema setters: trim on titulo and descripcion (categoria values are atoms).
ServiceSetters(d) ==
  [f \in DOMAIN d |->
     IF f \in {"titulo", "descripcion"} THEN Trim(d[f]) ELSE d[f]]

\* Variant of ServiceDefaults whose default state is not the pending one.
ServiceDefaultsEnProgreso ==
  [estado |-> "en progreso", precio |-> 0, moneda |-> "MXN",
   duracionEstimada |-> 1, unidadDuracion |-> "horas"]

\* Schema defaults applied by new Service(data).
ServiceDefaults ==
  [estado |-> "pendiente", precio |-> 0, moneda |-> "MXN",
   duracionEstimada |-> 1, unidadDuracion |-> "horas"]

\* The validators of the paths present in d.
ServicePathsValid(d) ==
  /\ Has(d, "titulo") => (d.titulo # <<>> /\ Len(d.titulo) <= TituloMaxLength)
  /\ Has(d, "descripcion") => (d.descripcion # <<>> /\ Len(d.descripcion) <= DescripcionMaxLength)
  /\ Has(d, "categoria") => d.categoria \in Categorias
  /\ Has(d, "estado") => d.estado \in Estados
  /\ Has(d, "ubicacion") => CoordsValid(d.ubicacion.coordinates)
  /\ Has(d, "precio") => d.precio >= PrecioMin
  /\ Has(d, "moneda") => d.moneda \in Monedas
  /\ Has(d, "duracionEstimada") => d.duracionEstimada >= DuracionMin
  /\ Has(d, "unidadDuracion") => d.unidadDuracion \in UnidadesDuracion

\* The Number paths of the schema, the ones $inc applies to.
NumberPaths == {"precio", "duracionEstimada"}

\* Document validation on save.
ServiceValid(d) ==
  /\ {"titulo", "descripcion", "categoria", "estado", "creadoPor"} \subseteq DOMAIN d
  /\ ServicePathsValid(d)

\* Variants of puedeSerEditado with the state test loosened.
puedeSerEditadoNoEnProgreso(d) == d.estado # "en progreso"

puedeSerEditadoSiempre(d) == TRUE

puedeSerEditado(d) == d.estado = "pendiente"

\* marcarEnProgreso and marcarCompletado: the document after the call, and
\* whether the call threw instead of saving.
marcarEnProgreso(d) ==
  IF d.estado = "pendiente"
  THEN [threw |-> FALSE, doc |-> [d EXCEPT !.estado = "en progreso"]]
  ELSE [threw |-> TRUE, doc |-> d]

marcarCompletado(d) ==
  IF d.estado = "en progreso"
  THEN [threw |-> FALSE, doc |-> [d EXCEPT !.estado = "completado"]]
  ELSE [threw |-> TRUE, doc |-> d]

\* populate('creadoPor', fields): the owner reference replaced by the
\* selected fields of the user it names (null when no user has that id).
Populate(d, fields) ==
  [d EXCEPT !.creadoPor =
     IF d.creadoPor \in DOMAIN users
     THEN Pick(users[d.creadoPor], fields \cup {"_id"})
     ELSE [null |-> TRUE]]

(***************************************************************************)
(* Request inputs.  Names, emails, phones and passwords are character      *)
(* sequences.                                                              *)
(***************************************************************************)
Ana == <<"A", "n", "a">>
Eva == <<"E", "v", "a">>
Secret1 == <<"1", "2", "3", "4", "5", "6">>
Secret2 == <<"a", "b", "c", "d", "e", "f">>
ShortSecret == <<"1", "2", "3">>
EmailInputs == {<<"a">>, <<"A">>, <<"b">>}

\* The location the requests below carry.
Lugar == [coordinates |-> <<-99, 19>>]
PasswordInputs == {Secret1, Secret2, ShortSecret}

\* Bodies of POST /api/users.
RegBodies ==
  {[nombre |-> Ana, email |-> e, password |-> p, rol |-> "oferente", ubicacion |-> Lugar] :
      e \in EmailInputs, p \in PasswordInputs}
  \cup {[nombre |-> Ana, password |-> Secret1, rol |-> "oferente", ubicacion |-> Lugar],
        [nombre |-> Ana, email |-> <<"b">>, password |-> Secret1, rol |-> "admin",
         ubicacion |-> Lugar],
        [nombre |-> Ana, email |-> <<"b">>, password |-> Secret1, rol |-> "solicitante"],
        [nombre |-> Ana, email |-> <<"A">>, password |-> Secret1, rol |-> "solicitante"],
        [nombre |-> Ana, email |-> <<"b">>, password |-> Secret1, rol |-> "solicitante",
         ubicacion |-> [coordinates |-> <<-99>>]]}

Titulo1 == <<"t", "1">>
Titulo2 == <<"t", "2">>
Descripcion1 == <<"d">>
BaseServiceBody ==
  [titulo |-> Titulo1, descripcion |-> Descripcion1, categoria |-> "hogar", ubicacion |-> Lugar]

\* Bodies of POST /api/services.
ServiceCreateBodies ==
  {BaseServiceBody,
   [titulo |-> Titulo1, descripcion |-> Descripcion1, categoria |-> "hogar",
    estado |-> "completado", creadoPor |-> 2, ubicacion |-> Lugar],
   [descripcion |-> Descripcion1, categoria |-> "hogar", ubicacion |-> Lugar],
   [titulo |-> Titulo1, descripcion |-> Descripcion1, categoria |-> "magia", ubicacion |-> Lugar],
   [titulo |-> Titulo1, descripcion |-> Descripcion1, categoria |-> "hogar",
    ubicacion |-> [coordinates |-> <<-99>>]]}

\* Bodies of PUT /api/services/:id.
ServiceUpdateBodies ==
  {[titulo |-> Titulo2],
   [estado |-> "completado"],
   [estado |-> "cancelado"],
   [precio |-> -1],
   [ubicacion |-> [coordinates |-> <<-99, 91>>]],
   [creadoPor |-> 1],
   [creadoPor |-> 2]}

\* Bodies of PUT /api/services/:id that carry content only.
ContentUpdateBodies == {[titulo |-> Titulo2]}

\* Bodies of PATCH /api/services/:id/estado.
NuevoEstadoInputs == Estados \cup {"cancelado"}

\* A coordinate of a request is a JSON number or the JSON null; NaN is what
\* parseFloat makes of null.  Both are kept apart from every number a
\* coordinate can be.
JsonNull == -1000
NaN == -2000

\* The number a relational comparison makes of its operand: null is 0.
ToNumber(x) == IF x = JsonNull THEN 0 ELSE x

\* isNaN(x): false for a number and for null.
isNaN(x) == x = NaN

parseFloat(x) == IF x = JsonNull THEN NaN ELSE x

\* The treatment of updates.ubicacion shared by updateService and
\* updateUser: [ok, message, updates, undef].  A cleared location is assigned
\* undefined: the key leaves updates and is named in undef, the keys of the
\* update whose value is undefined.
ProcessUbicacion(updates) ==
  IF ~Has(updates, "ubicacion")
  THEN [ok |-> TRUE, message |-> "", updates |-> updates, undef |-> {}]
  ELSE IF \/ ~Has(updates.ubicacion, "coordinates")
          \/ Len(updates.ubicacion.coordinates) = 0
          \/ /\ Len(updates.ubicacion.coordinates) >= 2
             /\ updates.ubicacion.coordinates[1] = JsonNull
             /\ updates.ubicacion.coordinates[2] = JsonNull
  THEN [ok |-> TRUE, message |-> "", updates |-> Omit(updates, {"ubicacion"}),
        undef |-> {"ubicacion"}]
  ELSE IF Len(updates.ubicacion.coordinates) = 2
  THEN LET longitud == updates.ubicacion.coordinates[1]
           latitud == updates.ubicacion.coordinates[2]
       IN IF \/ isNaN(longitud) \/ isNaN(latitud)
             \/ ToNumber(longitud) < -180 \/ ToNumber(longitud) > 180
             \/ ToNumber(latitud) < -90 \/ ToNumber(latitud) > 90
          THEN [ok |-> FALSE, message |-> "Las coordenadas deben ser [longitud, latitud] válidas",
                updates |-> updates, undef |-> {}]
          ELSE [ok |-> TRUE, message |-> "",
                updates |-> [updates EXCEPT !.ubicacion =
                               [type |-> "Point",
                                coordinates |-> <<parseFloat(longitud), parseFloat(latitud)>>]],
                undef |-> {}]
  ELSE [ok |-> FALSE, message |-> "Las coordenadas deben ser [longitud, latitud]",
        updates |-> updates, undef |-> {}]

\* A path parameter :id that is not the text of an ObjectId (/api/users/abc).
MalformedId == -1

\* findById(id) casts id to an ObjectId; a malformed id fails the cast and
\* the query rejects with a CastError, which no handler tells apart from an
\* internal error.
findByIdThrows(id) == id = MalformedId

\* An update that sets a Number path to NaN fails its cast (CastError).
CastFails(upd) ==
  /\ Has(upd, "ubicacion")
  /\ \E i \in DOMAIN upd.ubicacion.coordinates : upd.ubicacion.coordinates[i] = NaN

\* The stored document an update is applied to.  What becomes of the keys of
\* the update whose value is undefined depends on the Mongoose version:
\* they are dropped from the update (the stored value stays), or sent as
\* null (the stored value goes).
UpdateBase(doc, undef, omitUndefined) == IF omitUndefined THEN doc ELSE Omit(doc, undef)

(***************************************************************************)
(* controllers/userController.js                                           *)
(***************************************************************************)

\* createUser up to the insert of save(): the checks of the handler, the
\* document built from the body, its validation and the hashing of the
\* password, none of which reads the collection; as [proceed, res, doc].
CreateUserPrepare(body) ==
  IF ~(SeqTruthy(body, "nombre") /\ SeqTruthy(body, "email")
       /\ SeqTruthy(body, "password") /\ StrTruthy(body, "rol"))
  THEN [proceed |-> FALSE, doc |-> EmptyDoc,
        res |-> Fail(400, "Nombre, email, contraseña y rol son obligatorios")]
  ELSE IF Has(body, "ubicacion")
          /\ (~Has(body.ubicacion, "coordinates") \/ Len(body.ubicacion.coordinates) # 2)
  THEN [proceed |-> FALSE, doc |-> EmptyDoc,
        res |-> Fail(400, "Las coordenadas de ubicación deben ser [longitud, latitud]")]
  ELSE
    LET base == [nombre |-> body.nombre, email |-> ToLowerCase(body.email),
                 password |-> body.password, rol |-> body.rol,
                 skills |-> IF Has(body, "skills") THEN body.skills ELSE <<>>]
        withTel == IF Has(body, "telefono") THEN ("telefono" :> body.telefono) @@ base ELSE base
        userData == IF Has(body, "ubicacion") /\ Has(body.ubicacion, "coordinates")
                    THEN ("ubicacion" :> [type |-> "Point",
                                           coordinates |-> body.ubicacion.coordinates]) @@ withTel
                    ELSE withTel
        newUser == WithUbicacionDefault(UserSetters(userData))
    IN IF ~UserValid(newUser)
       THEN [proceed |-> FALSE, doc |-> EmptyDoc, res |-> Fail(400, "Datos de usuario inválidos")]
       ELSE [proceed |-> TRUE, doc |-> PreSaveHash(newUser, TRUE), res |-> Fail(0, "")]

\* The insert of save() on the current collection and the answer of the
\* handler, as [res, doc]; doc is the inserted document or EmptyDoc when
\* nothing is inserted.  The insert meets the unique index on email, then
\* the 2dsphere index.
CreateUserInsert(newUser) ==
  LET saved == ("_id" :> Len(users) + 1) @@ newUser
  IN IF EmailTaken(saved.email, saved._id)
     THEN [res |-> Fail(400, "El email ya está registrado"), doc |-> EmptyDoc]
     ELSE IF ~GeoKeysExtractable(saved)
     THEN [res |-> Fail(500, "Error interno del servidor"), doc |-> EmptyDoc]
     ELSE [res |-> Ok(201, "Usuario creado exitosamente", [user |-> toJSON(saved)]),
           doc |-> saved]

\* createUser up to the response: the outcome of the request on the
\* current collection, as [res, doc].
CreateUserOutcome(body) ==
  LET pre == CreateUserPrepare(body)
  IN IF pre.proceed THEN CreateUserInsert(pre.doc) ELSE [res |-> pre.res, doc |-> EmptyDoc]

createUserUpTo(body, max) ==
  LET out == CreateUserOutcome(body)
  IN /\ out.doc # EmptyDoc => Len(users) < max
     /\ req' = [op |-> "createUser", user |-> 0, id |-> 0, body |-> body]
     /\ res' = out.res
     /\ users' = IF out.doc # EmptyDoc THEN Append(users, out.doc) ELSE users
     /\ UNCHANGED <<services, procs>>

createUser(body) == createUserUpTo(body, MaxUsers)

\* A result sequence in the opposite order.
Reverse(docs) == [i \in 1..Len(docs) |-> docs[Len(docs) + 1 - i]]

\* .skip(skip).limit(limit) on a result sequence.
PageOf(found, skip, limit) ==
  SubSeq(found, skip + 1, IF skip + limit < Len(found) THEN skip + limit ELSE Len(found))

\* Variant of CeilDiv that rounds down.
CeilDivFloor(total, limit) == total \div limit

\* Math.ceil(total / limit) for limit >= 1.
CeilDiv(total, limit) == (total + limit - 1) \div limit

\* The ubicacion query parameter is the sequence of its comma-separated parts
\* (<<>> when the query has none); a part is the number it spells, or NaN
\* when parseFloat reads no number in it.  The geographic filter is built
\* when the first two parts are numbers; a missing second part is undefined,
\* which isNaN takes for NaN.
GeoQueryApplies(ubicacion) ==
  /\ Len(ubicacion) >= 2
  /\ ~isNaN(parseFloat(ubicacion[1]))
  /\ ~isNaN(parseFloat(ubicacion[2]))

\* getUsers: the list request with page, limit, an optional rol ("" when the
\* query has none) and the ubicacion parameter.  find() runs first and
\* countDocuments() second; countDocuments() does not accept a filter with
\* $near, so a request whose geographic filter was built ends in the catch
\* block.
getUsers(page, limit, rol, ubicacion) ==
  LET byRol == rol # "" /\ rol \in Roles
      Match(d) == byRol => d.rol = rol
      found == Reverse(SelectSeq(users, Match))
      skip == (page - 1) * limit
      total == Len(found)
      shown == PageOf(found, skip, limit)
  IN /\ req' = [op |-> "getUsers", user |-> 0, id |-> 0,
                body |-> [page |-> page, limit |-> limit, rol |-> rol,
                          ubicacion |-> ubicacion]]
     /\ res' = IF GeoQueryApplies(ubicacion)
               THEN Fail(500, "Error interno del servidor")
               ELSE Ok(200, "Usuarios obtenidos exitosamente",
                       [users |-> [i \in DOMAIN shown |-> SelectNoPassword(shown[i])],
                        pagination |-> [currentPage |-> page,
                                        totalPages |-> CeilDiv(total, limit),
                                        totalUsers |-> total,
                                        hasNext |-> skip + limit < total,
                                        hasPrev |-> page > 1]])
     /\ UNCHANGED <<users, services, procs>>

getUserById(id) ==
  /\ req' = [op |-> "getUserById", user |-> 0, id |-> id, body |-> EmptyDoc]
  /\ res' = IF findByIdThrows(id)
            THEN Fail(500, "Error interno del servidor")
            ELSE IF id \notin DOMAIN users
            THEN Fail(404, "Usuario no encontrado")
            ELSE Ok(200, "Usuario obtenido exitosamente", [user |-> SelectNoPassword(users[id])])
  /\ UNCHANGED <<users, services, procs>>

\* updateUser and changePassword address the user of the path parameter id;
\* neither reads req.user, which is recorded in req only.

\* updateUser from the request to the call of findByIdAndUpdate:
\* [proceed, res, updates, undef].
UpdateUserPrepare(id, body) ==
  LET noPassword == IF SeqTruthy(body, "password") THEN Omit(body, {"password"}) ELSE body
      named == IF Has(noPassword, "nombre")
               THEN [noPassword EXCEPT !.nombre = Trim(@)]
               ELSE noPassword
      telefonoUndefined == SeqTruthy(named, "telefono") /\ Trim(named.telefono) = <<>>
      phoned == IF SeqTruthy(named, "telefono")
                THEN IF telefonoUndefined
                     THEN Omit(named, {"telefono"})
                     ELSE [named EXCEPT !.telefono = Trim(@)]
                ELSE named
      skilled == IF Has(phoned, "skills")
                 THEN [phoned EXCEPT !.skills =
                         SelectSeq([i \in DOMAIN @ |-> Trim(@[i])], LAMBDA sk : sk # <<>>)]
                 ELSE phoned
  IN IF Has(named, "nombre") /\ named.nombre = <<>>
     THEN [proceed |-> FALSE, res |-> Fail(400, "El nombre no puede estar vacío"),
           updates |-> body, undef |-> {}]
     ELSE IF findByIdThrows(id)
     THEN [proceed |-> FALSE, res |-> Fail(500, "Error interno del servidor"),
           updates |-> body, undef |-> {}]
     ELSE IF id \notin DOMAIN users
     THEN [proceed |-> FALSE, res |-> Fail(404, "Usuario no encontrado"),
           updates |-> body, undef |-> {}]
     ELSE LET loc == ProcessUbicacion(skilled)
          IN IF ~loc.ok
             THEN [proceed |-> FALSE, res |-> Fail(400, loc.message), updates |-> body, undef |-> {}]
             ELSE [proceed |-> TRUE, res |-> Fail(0, ""), updates |-> loc.updates,
                   undef |-> loc.undef \cup (IF telefonoUndefined THEN {"telefono"} ELSE {})]

\* User.findByIdAndUpdate(id, updates, {new: true, runValidators: true}) and
\* the response: [res, doc].
UpdateUserWrite(id, updates, undef, omitUndefined) ==
  LET upd == UserSetters(Pick(CastUpdate(updates), UserPaths))
  IN IF CastFails(upd)
     THEN [res |-> Fail(500, "Error interno del servidor"), doc |-> users[id]]
     ELSE IF ~UserPathsValid(upd)
     THEN [res |-> Fail(400, "Datos de usuario inválidos"), doc |-> users[id]]
     ELSE IF Has(upd, "email") /\ EmailTaken(upd.email, id)
     THEN [res |-> Fail(400, "El email ya está registrado"), doc |-> users[id]]
     ELSE LET doc == SetFields(UpdateBase(users[id], undef, omitUndefined), upd)
          IN IF ~GeoKeysExtractable(doc)
             THEN [res |-> Fail(500, "Error interno del servidor"), doc |-> users[id]]
             ELSE [res |-> Ok(200, "Usuario actualizado exitosamente", [user |-> toJSON(doc)]),
                   doc |-> doc]

updateUser(u, id, body) ==
  LET pre == UpdateUserPrepare(id, body)
  IN /\ req' = [op |-> "updateUser", user |-> u, id |-> id, body |-> body]
     /\ IF ~pre.proceed
        THEN res' = pre.res /\ UNCHANGED users
        ELSE \E omitUndefined \in BOOLEAN :
               LET out == UpdateUserWrite(id, pre.updates, pre.undef, omitUndefined)
               IN res' = out.res /\ users' = [users EXCEPT ![id] = out.doc]
     /\ UNCHANGED <<services, procs>>

\* changePassword: [res, doc]; doc is the user document as stored afterwards
\* (EmptyDoc when no user has the id).
ChangePasswordOutcome(id, body) ==
  IF ~(SeqTruthy(body, "currentPassword") /\ SeqTruthy(body, "newPassword"))
  THEN [res |-> Fail(400, "Contraseña actual y nueva contraseña son requeridas"), changed |-> FALSE]
  ELSE IF IsString(body.newPassword) /\ Len(body.newPassword) < 6
  THEN [res |-> Fail(400, "La nueva contraseña debe tener al menos 6 caracteres"), changed |-> FALSE]
  ELSE IF findByIdThrows(id)
  THEN [res |-> Fail(500, "Error interno del servidor"), changed |-> FALSE]
  ELSE IF id \notin DOMAIN users
  THEN [res |-> Fail(404, "Usuario no encontrado"), changed |-> FALSE]
  ELSE IF comparePasswordThrows(body.currentPassword)
  THEN [res |-> Fail(500, "Error interno del servidor"), changed |-> FALSE]
  ELSE IF ~comparePassword(users[id], body.currentPassword)
  THEN [res |-> Fail(400, "La contraseña actual es incorrecta"), changed |-> FALSE]
  ELSE LET user == [users[id] EXCEPT !.password = CastString(body.newPassword)]
       IN IF ~UserValid(user)
          THEN [res |-> Fail(400, "Datos inválidos"), changed |-> FALSE]
          ELSE [res |-> Ok(200, "Contraseña actualizada exitosamente", EmptyDoc),
                changed |-> TRUE,
                doc |-> PreSaveHash(user, user.password # users[id].password)]

changePassword(u, id, body) ==
  LET out == ChangePasswordOutcome(id, body)
  IN /\ req' = [op |-> "changePassword", user |-> u, id |-> id, body |-> body]
     /\ res' = out.res
     /\ users' = IF out.changed
                 THEN [users EXCEPT ![id] = SetFields(@, Pick(out.doc, {"password"}))]
                 ELSE users
     /\ UNCHANGED <<services, procs>>

(***************************************************************************)
(* controllers/authController.js                                           *)
(***************************************************************************)

\* jwt.sign({ userId }, secret, { expiresIn: '7d' }): the payload.
generateToken(userId) == [userId |-> userId, expiresIn |-> "7d"]

login(body) ==
  /\ req' = [op |-> "login", user |-> 0, id |-> 0, body |-> body]
  /\ res' =
       IF ~(SeqTruthy(body, "email") /\ SeqTruthy(body, "password"))
       THEN Fail(400, "Email y contraseña son obligatorios")
       ELSE LET found == {i \in DOMAIN users : users[i].email = ToLowerCase(body.email)}
            IN IF found = {}
               THEN Fail(401, "Credenciales inválidas")
               ELSE LET user == users[CHOOSE i \in found : TRUE]
                    IN IF comparePasswordThrows(body.password)
                       THEN Fail(500, "Error interno del servidor")
                       ELSE IF ~comparePassword(user, body.password)
                       THEN Fail(401, "Credenciales inválidas")
                       ELSE Ok(200, "Inicio de sesión exitoso",
                               [user |-> toJSON(user), token |-> generateToken(user._id)])
  /\ UNCHANGED <<users, services, procs>>

\* getMe for a request that passed the authorization gate as user u.
getMe(u) ==
  /\ u \in DOMAIN users
  /\ req' = [op |-> "getMe", user |-> u, id |-> 0, body |-> EmptyDoc]
  /\ res' = Response(200, <<>>, [user |-> toJSON(users[u])])
  /\ UNCHANGED <<users, services, procs>>

(***************************************************************************)
(* middleware/auth.js: authenticateToken, the step the routers place       *)
(* before each protected handler.  The Authorization header carries no     *)
(* token, a string that is not a token, or a token: the payload            *)
(* generateToken signs, the secret it was signed with, and whether its 7   *)
(* days have passed.                                                       *)
(***************************************************************************)
NoToken == [kind |-> "missing"]
MalformedToken == [kind |-> "malformed"]
SignedToken(userId, secret, age) ==
  [kind |-> "jwt", payload |-> generateToken(userId), secret |-> secret, age |-> age]

\* The token login hands out for userId, presented within its 7 days.
ValidToken(userId) == SignedToken(userId, "JWT_SECRET", "fresh")

\* The authentication error of the gate (401; only its class is specified).
AuthError == Response(401, <<>>, EmptyDoc)

\* [ok, user]: the identity attached to the request when the token verifies
\* and names a stored user.
authenticateToken(token) ==
  IF \/ token.kind # "jwt"
     \/ token.secret # "JWT_SECRET"
     \/ token.age # "fresh"
     \/ token.payload.userId \notin DOMAIN users
  THEN [ok |-> FALSE, user |-> 0]
  ELSE [ok |-> TRUE, user |-> token.payload.userId]

\* The request ended at the gate: no handler step runs.
Rejected(op, token, id, body) ==
  /\ req' = [op |-> op, user |-> 0, id |-> id, body |-> body, token |-> token]
  /\ res' = AuthError
  /\ UNCHANGED <<users, services, procs>>

(***************************************************************************)
(* controllers/serviceController.js                                        *)
(***************************************************************************)
OwnerFields == {"nombre", "email", "telefono", "rol"}
OwnerFieldsWithLocation == OwnerFields \cup {"ubicacion"}

\* Variant of EsCreador that accepts every requester.
EsCreadorCualquiera(service, u) == TRUE

\* service.creadoPor.toString() === req.user._id.toString()
EsCreador(service, u) == service.creadoPor = u

\* Variant of serviceDataCreadoPor that lets the body name the owner.
serviceDataCreadoPorFromBody(u, body) == IF Has(body, "creadoPor") THEN body.creadoPor ELSE u

\* serviceData.creadoPor: req.user._id, whatever the body carries.
serviceDataCreadoPor(u, body) == u

\* createService up to the response, for the authenticated user u.
CreateServiceOutcome(u, body) ==
  IF ~(SeqTruthy(body, "titulo") /\ SeqTruthy(body, "descripcion")
       /\ StrTruthy(body, "categoria"))
  THEN [res |-> Fail(400, "Título, descripción y categoría son obligatorios"), doc |-> EmptyDoc]
  ELSE IF Has(body, "ubicacion")
          /\ (~Has(body.ubicacion, "coordinates") \/ Len(body.ubicacion.coordinates) # 2)
  THEN [res |-> Fail(400, "Las coordenadas de ubicación deben ser [longitud, latitud]"),
        doc |-> EmptyDoc]
  ELSE
    LET base == [titulo |-> body.titulo, descripcion |-> body.descripcion,
                 categoria |-> body.categoria, creadoPor |-> serviceDataCreadoPor(u, body),
                 precio |-> IF Has(body, "precio") /\ body.precio # 0 THEN body.precio ELSE 0,
                 moneda |-> IF StrTruthy(body, "moneda") THEN body.moneda ELSE "MXN",
                 duracionEstimada |-> IF Has(body, "duracionEstimada") /\ body.duracionEstimada # 0
                                      THEN body.duracionEstimada ELSE 1,
                 unidadDuracion |-> IF StrTruthy(body, "unidadDuracion")
                                    THEN body.unidadDuracion ELSE "horas"]
        serviceData == IF Has(body, "ubicacion") /\ Has(body.ubicacion, "coordinates")
                       THEN ("ubicacion" :> [type |-> "Point",
                                              coordinates |-> body.ubicacion.coordinates]) @@ base
                       ELSE base
        newService == ("_id" :> Len(services) + 1)
                      @@ WithUbicacionDefault(ServiceSetters(serviceData)) @@ ServiceDefaults
    IN IF ~ServiceValid(newService)
       THEN [res |-> Fail(400, "Datos de servicio inválidos"), doc |-> EmptyDoc]
       ELSE IF ~GeoKeysExtractable(newService)
       THEN [res |-> Fail(500, "Error interno del servidor"), doc |-> EmptyDoc]
       ELSE [res |-> Ok(201, "Servicio creado exitosamente",
                              [service |-> Populate(newService, OwnerFields)]),
             doc |-> newService]

createServiceUpTo(u, body, max) ==
  LET out == CreateServiceOutcome(u, body)
  IN /\ u \in DOMAIN users
     /\ out.doc # EmptyDoc => Len(services) < max
     /\ req' = [op |-> "createService", user |-> u, id |-> 0, body |-> body]
     /\ res' = out.res
     /\ services' = IF out.doc # EmptyDoc THEN Append(services, out.doc) ELSE services
     /\ UNCHANGED <<users, procs>>

createService(u, body) == createServiceUpTo(u, body, MaxServices)

\* updateService from findById to the call of findByIdAndUpdate:
\* [proceed, res, updates, undef]; res is the failure response when not
\* proceed.
UpdateServicePrepare(u, id, body) ==
  IF findByIdThrows(id)
  THEN [proceed |-> FALSE, res |-> Fail(500, "Error interno del servidor"),
        updates |-> body, undef |-> {}]
  ELSE IF id \notin DOMAIN services
  THEN [proceed |-> FALSE, res |-> Fail(404, "Servicio no encontrado"), updates |-> body, undef |-> {}]
  ELSE IF ~EsCreador(services[id], u)
  THEN [proceed |-> FALSE, res |-> Fail(403, "No tienes permisos para editar este servicio"),
        updates |-> body, undef |-> {}]
  ELSE IF ~puedeSerEditado(services[id])
  THEN [proceed |-> FALSE,
        res |-> Fail(400, "Solo se pueden editar servicios en estado pendiente"),
        updates |-> body, undef |-> {}]
  ELSE LET loc == ProcessUbicacion(body)
       IN IF ~loc.ok
          THEN [proceed |-> FALSE, res |-> Fail(400, loc.message), updates |-> body, undef |-> {}]
          ELSE [proceed |-> TRUE, res |-> Fail(0, ""), updates |-> loc.updates, undef |-> loc.undef]

\* Service.findByIdAndUpdate(id, updates, {new: true, runValidators: true})
\* and the response: [res, doc]; doc is the document as stored afterwards.
\* The filter is the id alone.
\* An $inc operator in the object is sent on as it is, cast to the Number
\* paths it names; runValidators validates what $set assigns and does not
\* look at $inc.  The 2dsphere index is checked by the store on the
\* document as written.
UpdateServiceWrite(id, updates, undef, omitUndefined) ==
  LET upd == ServiceSetters(Pick(CastUpdate(updates), ServicePaths))
      inc == IF Has(updates, "$inc") THEN Pick(updates["$inc"], NumberPaths) ELSE EmptyDoc
  IN IF CastFails(upd)
     THEN [res |-> Fail(500, "Error interno del servidor"), doc |-> services[id]]
     ELSE IF ~ServicePathsValid(upd)
     THEN [res |-> Fail(400, "Datos de servicio inválidos"), doc |-> services[id]]
     ELSE LET set == SetFields(UpdateBase(services[id], undef, omitUndefined), upd)
              doc == [f \in DOMAIN set |->
                        IF f \in DOMAIN inc THEN set[f] + inc[f] ELSE set[f]]
          IN IF ~GeoKeysExtractable(doc)
             THEN [res |-> Fail(500, "Error interno del servidor"), doc |-> services[id]]
             ELSE [res |-> Ok(200, "Servicio actualizado exitosamente",
                                  [service |-> Populate(doc, OwnerFields)]),
                   doc |-> doc]

updateService(u, id, body) ==
  LET pre == UpdateServicePrepare(u, id, body)
  IN /\ u \in DOMAIN users
     /\ req' = [op |-> "updateService", user |-> u, id |-> id, body |-> body]
     /\ IF ~pre.proceed
        THEN res' = pre.res /\ UNCHANGED services
        ELSE \E omitUndefined \in BOOLEAN :
               LET out == UpdateServiceWrite(id, pre.updates, pre.undef, omitUndefined)
               IN res' = out.res /\ services' = [services EXCEPT ![id] = out.doc]
     /\ UNCHANGED <<users, procs>>

\* The filters object of the response: the query parameters as received
\* (a parameter the query lacks is undefined and leaves no key), and the
\* default radio.
EchoFilters(categoria, estado, ubicacion) ==
  LET given == [categoria |-> categoria, estado |-> estado, ubicacion |-> ubicacion]
      present == [categoria |-> categoria # "", estado |-> estado # "",
                  ubicacion |-> ubicacion # <<>>]
  IN ("radio" :> 10) @@ [f \in {g \in DOMAIN given : present[g]} |-> given[f]]

\* getServices: the list request with page, limit, optional categoria and
\* estado ("" when the query has none), the ubicacion parameter with the
\* default radio, and the sort direction on the default sort field
\* fechaPublicacion.  As in getUsers, countDocuments() rejects the filter
\* with $near.
getServices(page, limit, categoria, estado, ubicacion, orden) ==
  LET byEstado == estado # "" /\ estado \in Estados
      Match(d) == /\ categoria # "" => d.categoria = categoria
                  /\ byEstado => d.estado = estado
      matched == SelectSeq(services, Match)
      found == IF orden = "desc" THEN Reverse(matched) ELSE matched
      skip == (page - 1) * limit
      total == Len(found)
      shown == PageOf(found, skip, limit)
  IN /\ req' = [op |-> "getServices", user |-> 0, id |-> 0,
                body |-> [page |-> page, limit |-> limit, categoria |-> categoria,
                          estado |-> estado, ubicacion |-> ubicacion, orden |-> orden]]
     /\ res' = IF GeoQueryApplies(ubicacion)
               THEN Fail(500, "Error interno del servidor")
               ELSE Ok(200, "Servicios obtenidos exitosamente",
                       [services |-> [i \in DOMAIN shown |->
                                        Populate(shown[i], OwnerFieldsWithLocation)],
                        pagination |-> [currentPage |-> page,
                                        totalPages |-> CeilDiv(total, limit),
                                        totalServices |-> total,
                                        hasNext |-> skip + limit < total,
                                        hasPrev |-> page > 1],
                        filters |-> EchoFilters(categoria, estado, ubicacion)])
     /\ UNCHANGED <<users, services, procs>>

getServiceById(id) ==
  /\ req' = [op |-> "getServiceById", user |-> 0, id |-> id, body |-> EmptyDoc]
  /\ res' = IF findByIdThrows(id)
            THEN Fail(500, "Error interno del servidor")
            ELSE IF id \notin DOMAIN services
            THEN Fail(404, "Servicio no encontrado")
            ELSE Ok(200, "Servicio obtenido exitosamente",
                    [service |-> Populate(services[id], OwnerFieldsWithLocation)])
  /\ UNCHANGED <<users, services, procs>>

\* Variant of StatusBranch that also lets a pending listing be completed.
StatusBranchPendienteCompletado(estado, nuevoEstado) ==
  IF nuevoEstado = "en progreso" /\ estado = "pendiente" THEN "marcarEnProgreso"
  ELSE IF nuevoEstado = "completado" /\ estado \in {"en progreso", "pendiente"} THEN "marcarCompletado"
  ELSE IF nuevoEstado = "pendiente" /\ estado = "en progreso" THEN "pendiente"
  ELSE "rechazo"

\* The branch of updateServiceStatus taken for a stored and a requested state.
StatusBranch(estado, nuevoEstado) ==
  IF nuevoEstado = "en progreso" /\ estado = "pendiente" THEN "marcarEnProgreso"
  ELSE IF nuevoEstado = "completado" /\ estado = "en progreso" THEN "marcarCompletado"
  ELSE IF nuevoEstado = "pendiente" /\ estado = "en progreso" THEN "pendiente"
  ELSE "rechazo"

\* updateServiceStatus from the request to the call of save():
\* [proceed, res, doc]; doc is the handler's in-memory document with the new
\* state assigned, res the response when no save is issued.
StatusPrepare(u, id, nuevoEstado) ==
  IF nuevoEstado \notin Estados
  THEN [proceed |-> FALSE, doc |-> EmptyDoc,
        res |-> Fail(400, "Estado inválido. Debe ser: pendiente, en progreso o completado")]
  ELSE IF findByIdThrows(id)
  THEN [proceed |-> FALSE, doc |-> EmptyDoc, res |-> Fail(500, "Error interno del servidor")]
  ELSE IF id \notin DOMAIN services
  THEN [proceed |-> FALSE, doc |-> EmptyDoc, res |-> Fail(404, "Servicio no encontrado")]
  ELSE IF ~EsCreador(services[id], u)
  THEN [proceed |-> FALSE, doc |-> EmptyDoc,
        res |-> Fail(403, "No tienes permisos para cambiar el estado de este servicio")]
  ELSE LET service == services[id]
           branch == StatusBranch(service.estado, nuevoEstado)
           marked == CASE branch = "marcarEnProgreso" -> marcarEnProgreso(service)
                       [] branch = "marcarCompletado" -> marcarCompletado(service)
                       [] OTHER -> [threw |-> FALSE, doc |-> [service EXCEPT !.estado = "pendiente"]]
       IN IF branch = "rechazo"
          THEN [proceed |-> FALSE, doc |-> EmptyDoc,
                res |-> Response(400, <<"No se puede cambiar de estado", service.estado, nuevoEstado>>,
                                 EmptyDoc)]
          ELSE IF marked.threw
          THEN [proceed |-> FALSE, doc |-> EmptyDoc, res |-> Fail(500, "Error interno del servidor")]
          ELSE [proceed |-> TRUE, doc |-> marked.doc, res |-> Fail(0, "")]

\* service.save() of a document whose only modified path is estado: the
\* store sets that path on the document with the same _id.
SaveEstado(doc) == [services EXCEPT ![doc._id] = SetFields(@, Pick(doc, {"estado"}))]

\* Variant of StatusSuccess in which the answer after the save is a failure.
StatusSuccessFails(doc, nuevoEstado) == Fail(500, "Error interno del servidor")

StatusSuccess(doc, nuevoEstado) ==
  Response(200, <<"Estado del servicio cambiado a", nuevoEstado>>,
           [service |-> Populate(doc, OwnerFields)])

updateServiceStatus(u, id, nuevoEstado) ==
  LET pre == StatusPrepare(u, id, nuevoEstado)
  IN /\ u \in DOMAIN users
     /\ req' = [op |-> "updateServiceStatus", user |-> u, id |-> id,
                body |-> [nuevoEstado |-> nuevoEstado]]
     /\ IF ~pre.proceed
        THEN res' = pre.res /\ UNCHANGED services
        ELSE res' = StatusSuccess(pre.doc, nuevoEstado) /\ services' = SaveEstado(pre.doc)
     /\ UNCHANGED <<users, procs>>

(***************************************************************************)
(* routes/userRoutes.js, routes/authRoutes.js, routes/serviceRoutes.js:    *)
(* the protected routes, authenticateToken first and the handler after it. *)
(***************************************************************************)

\* Variant of PutUsersId registered without authenticateToken.
PutUsersIdNoGate(token, id, body) == updateUser(0, id, body)

PutUsersId(token, id, body) ==
  LET gate == authenticateToken(token)
  IN IF gate.ok THEN updateUser(gate.user, id, body)
     ELSE Rejected("updateUser", token, id, body)

PutUsersIdPassword(token, id, body) ==
  LET gate == authenticateToken(token)
  IN IF gate.ok THEN changePassword(gate.user, id, body)
     ELSE Rejected("changePassword", token, id, body)

GetAuthMe(token) ==
  LET gate == authenticateToken(token)
  IN IF gate.ok THEN getMe(gate.user)
     ELSE Rejected("getMe", token, 0, EmptyDoc)

PostServices(token, body) ==
  LET gate == authenticateToken(token)
  IN IF gate.ok THEN createService(gate.user, body)
     ELSE Rejected("createService", token, 0, body)

PutServicesId(token, id, body) ==
  LET gate == authenticateToken(token)
  IN IF gate.ok THEN updateService(gate.user, id, body)
     ELSE Rejected("updateService", token, id, body)

PatchServicesIdEstado(token, id, nuevoEstado) ==
  LET gate == authenticateToken(token)
  IN IF gate.ok THEN updateServiceStatus(gate.user, id, nuevoEstado)
     ELSE Rejected("updateServiceStatus", token, id, [nuevoEstado |-> nuevoEstado])

(***************************************************************************)
(* Specification of the handlers processed one request at a time.          *)
(***************************************************************************)
NoRequest == [op |-> "none", user |-> 0, id |-> 0, body |-> EmptyDoc]

Init ==
  /\ users = <<>>
  /\ services = <<>>
  /\ req = NoRequest
  /\ res = Fail(0, "")
  /\ procs = [p \in Procs |-> [pc |-> "idle"]]

\* The registrations that populate the user collection for the listing
\* handlers.
OwnerRegBodies ==
  {[nombre |-> Ana, email |-> e, password |-> Secret1, rol |-> "oferente", ubicacion |-> Lugar] :
      e \in {<<"a">>, <<"b">>}}

\* The registration of a single user.
ConcRegBodies ==
  {[nombre |-> Ana, email |-> <<"a">>, password |-> Secret1, rol |-> "oferente", ubicacion |-> Lugar]}

(***************************************************************************)
(* SpecLifecycle: the listing handlers, each request processed to its      *)
(* response before the next one starts.                                    *)
(***************************************************************************)
NextLifecycle ==
  \/ \E body \in OwnerRegBodies : createUser(body)
  \/ \E u \in UserIds, body \in ServiceCreateBodies : createService(u, body)
  \/ \E u \in UserIds, id \in ServiceIds, body \in ServiceUpdateBodies : updateService(u, id, body)
  \/ \E u \in UserIds, id \in ServiceIds, e \in NuevoEstadoInputs : updateServiceStatus(u, id, e)

SpecLifecycle == Init /\ [][NextLifecycle]_vars

(***************************************************************************)
(* SpecRegister: registrations only.                                       *)
(***************************************************************************)
NextRegister == \E body \in RegBodies : createUser(body)

SpecRegister == Init /\ [][NextRegister]_vars

(***************************************************************************)
(* Spec: every endpoint of the API, each request processed to its response *)
(* before the next one starts.                                             *)
(***************************************************************************)
LoginBodies ==
  {[email |-> e, password |-> p] : e \in {<<"A">>, <<"b">>}, p \in {Secret1, Secret2}}
  \cup {[email |-> <<"a">>],
        [email |-> <<"A">>, password |-> JsonNumber],
        [email |-> <<"c">>, password |-> JsonNumber]}

UserUpdateBodies == {[nombre |-> Ana, password |-> Secret2]}

ChangePasswordBodies ==
  {[currentPassword |-> Secret1, newPassword |-> Secret2],
   [currentPassword |-> Secret1, newPassword |-> ShortSecret]}

PageInputs == {1, 2}
LimitInputs == {1}

\* Authorization headers of the requests: none, and the token of login for
\* each user id.
SessionTokens == {NoToken} \cup {ValidToken(u) : u \in UserIds}

\* Authorization headers of the requests of Spec: none, and the token of
\* login for the first user.
ApiTokens == {NoToken, ValidToken(1)}

Next ==
  \/ \E body \in OwnerRegBodies : createUser(body)
  \/ \E page \in PageInputs, limit \in LimitInputs, rol \in {"", "oferente"} :
       getUsers(page, limit, rol, <<>>)
  \/ \E id \in UserIds : getUserById(id)
  \/ \E token \in ApiTokens, id \in UserIds, body \in UserUpdateBodies :
       PutUsersId(token, id, body)
  \/ \E token \in ApiTokens, id \in UserIds, body \in ChangePasswordBodies :
       PutUsersIdPassword(token, id, body)
  \/ \E body \in LoginBodies : login(body)
  \/ \E token \in ApiTokens : GetAuthMe(token)
  \/ \E token \in ApiTokens : PostServices(token, BaseServiceBody)
  \/ \E page \in PageInputs, limit \in LimitInputs, estado \in {"", "pendiente"} :
       getServices(page, limit, "", estado, <<>>, "desc")
  \/ \E id \in ServiceIds : getServiceById(id)
  \/ \E token \in ApiTokens, id \in ServiceIds, body \in ContentUpdateBodies :
       PutServicesId(token, id, body)
  \/ \E token \in ApiTokens, id \in ServiceIds, e \in Estados :
       PatchServicesIdEstado(token, id, e)

Spec == Init /\ [][Next]_vars

(***************************************************************************)
(* SpecGate: the protected routes under every kind of Authorization        *)
(* header.                                                                 *)
(***************************************************************************)

\* Authorization headers: none, not a token, a token signed with another
\* secret, an expired token, and the tokens of login for the user ids 1 and
\* 2 (a token whose user id names no stored user is one of them: the
\* registrations of SpecGate store one user).
TokenInputs ==
  {NoToken, MalformedToken, SignedToken(1, "other", "fresh"), SignedToken(1, "JWT_SECRET", "expired"),
   ValidToken(1), ValidToken(2)}

GateUserUpdateBodies == {[nombre |-> Eva]}
GateChangePasswordBodies == {[currentPassword |-> Secret1, newPassword |-> Secret2]}
GateNuevoEstadoInputs == {"en progreso"}

\* One request on a protected route with the given Authorization header.
ProtectedRequest(token) ==
  \/ \E id \in UserIds, body \in GateUserUpdateBodies : PutUsersId(token, id, body)
  \/ \E id \in UserIds, body \in GateChangePasswordBodies : PutUsersIdPassword(token, id, body)
  \/ GetAuthMe(token)
  \/ PostServices(token, BaseServiceBody)
  \/ \E id \in ServiceIds, body \in ContentUpdateBodies : PutServicesId(token, id, body)
  \/ \E id \in ServiceIds, e \in GateNuevoEstadoInputs : PatchServicesIdEstado(token, id, e)

NextGate ==
  \/ \E body \in ConcRegBodies : createUser(body)
  \/ \E token \in TokenInputs, id \in UserIds, body \in GateUserUpdateBodies :
       PutUsersId(token, id, body)
  \/ \E token \in TokenInputs, id \in UserIds, body \in GateChangePasswordBodies :
       PutUsersIdPassword(token, id, body)
  \/ \E token \in TokenInputs : GetAuthMe(token)
  \/ \E token \in TokenInputs : PostServices(token, BaseServiceBody)
  \/ \E token \in TokenInputs, id \in ServiceIds, body \in ContentUpdateBodies :
       PutServicesId(token, id, body)
  \/ \E token \in TokenInputs, id \in ServiceIds, e \in GateNuevoEstadoInputs :
       PatchServicesIdEstado(token, id, e)

SpecGate == Init /\ [][NextGate]_vars

(***************************************************************************)
(* SpecAccount: registration, profile update and password change.          *)
(***************************************************************************)
AccountUpdateBodies ==
  {[nombre |-> Eva, password |-> Secret2],
   [password |-> Secret2],
   [password |-> <<>>],
   ("$set" :> [password |-> Secret2])}

AccountChangePasswordBodies ==
  {[currentPassword |-> Secret1, newPassword |-> Secret2],
   [currentPassword |-> Secret2, newPassword |-> Secret1],
   [currentPassword |-> Secret1, newPassword |-> ShortSecret],
   [currentPassword |-> Secret1],
   [newPassword |-> Secret2],
   [currentPassword |-> JsonNumber, newPassword |-> Secret2]}

AccountLoginBodies ==
  {[email |-> e, password |-> p] : e \in {<<"a">>, <<"b">>}, p \in {Secret1, Secret2}}

NextAccount ==
  \/ \E body \in OwnerRegBodies : createUser(body)
  \/ \E body \in AccountLoginBodies : login(body)
  \/ \E token \in SessionTokens, id \in UserIds, body \in AccountUpdateBodies :
       PutUsersId(token, id, body)
  \/ \E token \in SessionTokens, id \in UserIds, body \in AccountChangePasswordBodies :
       PutUsersIdPassword(token, id, body)

SpecAccount == Init /\ [][NextAccount]_vars

(***************************************************************************)
(* SpecLocation: the location of users and listings, set on create and     *)
(* changed by the two update handlers.                                     *)
(***************************************************************************)

\* The ubicacion values of update bodies: without coordinates, with none,
\* with two nulls, with a valid pair, with the boundary pair, out of range,
\* with one and with three coordinates, and with one null.
LocationValues ==
  {[type |-> "Point"],
   [coordinates |-> <<>>],
   [coordinates |-> <<JsonNull, JsonNull>>],
   [coordinates |-> <<10, 20>>],
   [coordinates |-> <<180, -90>>],
   [coordinates |-> <<181, 0>>],
   [coordinates |-> <<0, 91>>],
   [coordinates |-> <<10>>],
   [coordinates |-> <<10, 20, 30>>],
   [coordinates |-> <<JsonNull, 20>>]}

LocationUpdateBodies == {[ubicacion |-> v] : v \in LocationValues}

LocationRegBodies ==
  ConcRegBodies
  \cup {[nombre |-> Ana, email |-> <<"a">>, password |-> Secret1, rol |-> "oferente"],
        [nombre |-> Ana, email |-> <<"a">>, password |-> Secret1, rol |-> "oferente",
         ubicacion |-> [coordinates |-> <<180, -90>>]],
        [nombre |-> Ana, email |-> <<"a">>, password |-> Secret1, rol |-> "oferente",
         ubicacion |-> [coordinates |-> <<-99, 91>>]]}

LocationServiceBodies ==
  {BaseServiceBody,
   [titulo |-> Titulo1, descripcion |-> Descripcion1, categoria |-> "hogar"]}

NextLocation ==
  \/ \E body \in LocationRegBodies : createUser(body)
  \/ \E id \in UserIds : getUserById(id)
  \/ \E token \in SessionTokens, body \in LocationServiceBodies : PostServices(token, body)
  \/ \E token \in SessionTokens, id \in UserIds, body \in LocationUpdateBodies :
       PutUsersId(token, id, body)
  \/ \E token \in SessionTokens, id \in ServiceIds, body \in LocationUpdateBodies :
       PutServicesId(token, id, body)

SpecLocation == Init /\ [][NextLocation]_vars

(***************************************************************************)
(* SpecList: the two list requests over collections of several records.    *)
(***************************************************************************)
MaxListed == 3

\* The n-th registration: a fresh email, the roles alternating.
ListRegBody(n) ==
  [nombre |-> Ana, email |-> [i \in 1..n |-> "a"], password |-> Secret1,
   rol |-> IF n % 2 = 1 THEN "oferente" ELSE "solicitante", ubicacion |-> Lugar]

\* The n-th listing: the categories alternating.
ListServiceBody(n) ==
  [titulo |-> Titulo1, descripcion |-> Descripcion1,
   categoria |-> IF n % 2 = 1 THEN "hogar" ELSE "limpieza", ubicacion |-> Lugar]

ListPageInputs == {1, 2, 3}
ListLimitInputs == {1, 2}
ListRolInputs == {"", "oferente"}
ListCategoriaInputs == {"", "hogar"}
ListEstadoInputs == {"", "pendiente", "cancelado"}

\* ubicacion parameters: none, "-99,19" and "aqui".
ListUbicacionInputs == {<<>>, <<-99, 19>>, <<NaN>>}

NextList ==
  \/ createUserUpTo(ListRegBody(Len(users) + 1), MaxListed)
  \/ createServiceUpTo(1, ListServiceBody(Len(services) + 1), MaxListed)
  \/ updateServiceStatus(1, 1, "en progreso")
  \/ \E page \in ListPageInputs, limit \in ListLimitInputs, rol \in ListRolInputs,
        ubicacion \in ListUbicacionInputs :
       getUsers(page, limit, rol, ubicacion)
  \/ \E page \in ListPageInputs, limit \in ListLimitInputs, categoria \in ListCategoriaInputs,
        estado \in ListEstadoInputs, ubicacion \in ListUbicacionInputs :
       getServices(page, limit, categoria, estado, ubicacion, "desc")

SpecList == Init /\ [][NextList]_vars

(***************************************************************************)
(* SpecMissing: requests that address a record by the id of the path, among *)
(* them ids of no stored record and ids that are not ObjectIds.             *)
(***************************************************************************)
\* Path ids: the first record, a well-formed id of no record, a malformed id.
PathIdInputs == {1, 2, MalformedId}

MissingUpdateBodies == {[nombre |-> Ana], [nombre |-> <<>>]}

MissingChangePasswordBodies ==
  {[currentPassword |-> Secret1, newPassword |-> Secret1], [currentPassword |-> Secret1]}

NextMissing ==
  \/ \E body \in OwnerRegBodies : createUser(body)
  \/ \E token \in SessionTokens : PostServices(token, BaseServiceBody)
  \/ \E id \in PathIdInputs : getUserById(id)
  \/ \E token \in SessionTokens, id \in PathIdInputs, body \in MissingUpdateBodies :
       PutUsersId(token, id, body)
  \/ \E token \in SessionTokens, id \in PathIdInputs, body \in MissingChangePasswordBodies :
       PutUsersIdPassword(token, id, body)
  \/ \E id \in PathIdInputs : getServiceById(id)
  \/ \E token \in SessionTokens, id \in PathIdInputs, body \in ContentUpdateBodies :
       PutServicesId(token, id, body)
  \/ \E token \in SessionTokens, id \in PathIdInputs, e \in NuevoEstadoInputs :
       PatchServicesIdEstado(token, id, e)

SpecMissing == Init /\ [][NextMissing]_vars

(***************************************************************************)
(* SpecProfile: updates of the profile fields of a user.                   *)
(***************************************************************************)
Telefono1 == <<"5", "5">>
Telefono2 == <<"5", "6">>

\* telefono values of an update: two numbers, the empty string, blanks.
TelefonoInputs == {Telefono1, Telefono2, <<>>, <<" ">>, <<" ", " ">>}

ProfileUpdateBodies ==
  {[telefono |-> t] : t \in TelefonoInputs}
  \cup {[nombre |-> Eva], [nombre |-> Ana], [nombre |-> Eva, telefono |-> <<" ">>]}

ProfileRegBodies ==
  ConcRegBodies
  \cup {[nombre |-> Ana, email |-> <<"a">>, password |-> Secret1, rol |-> "oferente",
         telefono |-> Telefono1, ubicacion |-> Lugar]}

NextProfile ==
  \/ \E body \in ProfileRegBodies : createUser(body)
  \/ \E id \in UserIds : getUserById(id)
  \/ \E token \in ApiTokens, id \in UserIds, body \in ProfileUpdateBodies :
       PutUsersId(token, id, body)

SpecProfile == Init /\ [][NextProfile]_vars

(***************************************************************************)
(* SpecTerms: creates, updates and changes of state over bodies that name  *)
(* valid and invalid terms.                                                *)
(***************************************************************************)
TermsCreateBodies ==
  {BaseServiceBody,
   [titulo |-> Titulo1, descripcion |-> Descripcion1, categoria |-> "hogar", ubicacion |-> Lugar,
    precio |-> 5, moneda |-> "USD", duracionEstimada |-> 2, unidadDuracion |-> "dias"],
   [titulo |-> Titulo1, descripcion |-> Descripcion1, categoria |-> "hogar", ubicacion |-> Lugar,
    precio |-> -1],
   [titulo |-> Titulo1, descripcion |-> Descripcion1, categoria |-> "hogar", ubicacion |-> Lugar,
    moneda |-> "BTC"],
   [titulo |-> Titulo1, descripcion |-> Descripcion1, categoria |-> "magia", ubicacion |-> Lugar],
   [titulo |-> Titulo1, descripcion |-> Descripcion1, categoria |-> "hogar",
    ubicacion |-> [coordinates |-> <<181, 0>>]]}

TermsUpdateBodies ==
  {[precio |-> 5], [precio |-> -1], [moneda |-> "EUR"], [moneda |-> "BTC"],
   [duracionEstimada |-> 0], [unidadDuracion |-> "meses"], [categoria |-> "magia"],
   [categoria |-> "limpieza"], [estado |-> "cancelado"],
   [ubicacion |-> [coordinates |-> <<0, 91>>]],
   [ubicacion |-> [coordinates |-> <<10, 20>>]],
   "$set" :> [ubicacion |-> [type |-> "Point", coordinates |-> <<>>]]}

\* How far below zero the requests take a price.
MaxBelowZero == 1

TermsIncBodies == {"$inc" :> [precio |-> -1]}

NextTerms ==
  \/ \E body \in ConcRegBodies : createUser(body)
  \/ \E token \in ApiTokens, body \in TermsCreateBodies : PostServices(token, body)
  \/ \E token \in ApiTokens, id \in ServiceIds, body \in TermsUpdateBodies :
       PutServicesId(token, id, body)
  \/ \E token \in ApiTokens, id \in ServiceIds, body \in TermsIncBodies :
       /\ id \in DOMAIN services => services[id].precio > 0 - MaxBelowZero
       /\ PutServicesId(token, id, body)
  \/ \E token \in ApiTokens, id \in ServiceIds, e \in NuevoEstadoInputs :
       PatchServicesIdEstado(token, id, e)

SpecTerms == Init /\ [][NextTerms]_vars

(***************************************************************************)
(* SpecConc: requests in flight together.  A handler runs up to its next   *)
(* await on the store without interruption; between the read (findById)    *)
(* and the write (save, findByIdAndUpdate) of one request the steps of     *)
(* other requests may be processed.  procs[p] holds what request p keeps   *)
(* in memory while its write is pending, the request included; res is the  *)
(* last response sent.                                                     *)
(***************************************************************************)
Idle == [pc |-> "idle"]

\* A request in flight occupies the lowest free slot.
FreeSlot(p) == procs[p] = Idle /\ \A q \in Procs : q < p => procs[q] # Idle

\* updateServiceStatus up to `await service.save()`.
StatusRead(p, u, id, nuevoEstado) ==
  LET pre == StatusPrepare(u, id, nuevoEstado)
  IN /\ FreeSlot(p)
     /\ u \in DOMAIN users
     /\ IF ~pre.proceed
        THEN /\ res' = pre.res
             /\ UNCHANGED procs
        ELSE /\ procs' = [procs EXCEPT ![p] = [pc |-> "save", user |-> u, id |-> id,
                                                nuevoEstado |-> nuevoEstado, doc |-> pre.doc]]
             /\ UNCHANGED res
     /\ req' = NoRequest
     /\ UNCHANGED <<users, services>>

\* The pending save() of updateServiceStatus reaches the store, and the
\* handler answers.
StatusSave(p) ==
  /\ procs[p].pc = "save"
  /\ services' = SaveEstado(procs[p].doc)
  /\ res' = StatusSuccess(procs[p].doc, procs[p].nuevoEstado)
  /\ procs' = [procs EXCEPT ![p] = Idle]
  /\ req' = NoRequest
  /\ UNCHANGED users

\* updateService up to `await Service.findByIdAndUpdate(...)`.
UpdateRead(p, u, id, body) ==
  LET pre == UpdateServicePrepare(u, id, body)
  IN /\ FreeSlot(p)
     /\ u \in DOMAIN users
     /\ IF ~pre.proceed
        THEN /\ res' = pre.res
             /\ UNCHANGED procs
        ELSE /\ procs' = [procs EXCEPT ![p] = [pc |-> "findByIdAndUpdate", user |-> u, id |-> id,
                                                updates |-> pre.updates, undef |-> pre.undef]]
             /\ UNCHANGED res
     /\ req' = NoRequest
     /\ UNCHANGED <<users, services>>

\* The pending findByIdAndUpdate of updateService reaches the store, and the
\* handler answers.
UpdateWrite(p) ==
  /\ procs[p].pc = "findByIdAndUpdate"
  /\ \E omitUndefined \in BOOLEAN :
       LET out == UpdateServiceWrite(procs[p].id, procs[p].updates, procs[p].undef, omitUndefined)
       IN /\ res' = out.res
          /\ services' = [services EXCEPT ![procs[p].id] = out.doc]
  /\ procs' = [procs EXCEPT ![p] = Idle]
  /\ req' = NoRequest
  /\ UNCHANGED users

NextConc ==
  \/ \E body \in ConcRegBodies : createUser(body)
  \/ \E u \in UserIds : createService(u, BaseServiceBody)
  \/ \E p \in Procs, u \in UserIds, id \in ServiceIds, e \in Estados : StatusRead(p, u, id, e)
  \/ \E p \in Procs : StatusSave(p)
  \/ \E p \in Procs, u \in UserIds, id \in ServiceIds, body \in ContentUpdateBodies :
       UpdateRead(p, u, id, body)
  \/ \E p \in Procs : UpdateWrite(p)

SpecConc == Init /\ [][NextConc]_vars

(***************************************************************************)
(* SpecConcRegister: registrations in flight together.  createUser runs    *)
(* its checks, the validation and the hashing on the document in memory;   *)
(* the insert of `await newUser.save()` reaches the store later, after     *)
(* steps of other registrations.                                           *)
(***************************************************************************)

\* Registration bodies: the same email in two cases and another email, with
\* a location; the first email without a location; a password too short.
ConcRegisterBodies ==
  {[nombre |-> Ana, email |-> e, password |-> Secret1, rol |-> "oferente", ubicacion |-> Lugar]
     : e \in {<<"a">>, <<"A">>, <<"b">>}}
  \cup {[nombre |-> Ana, email |-> <<"a">>, password |-> Secret1, rol |-> "oferente"],
        [nombre |-> Ana, email |-> <<"a">>, password |-> ShortSecret, rol |-> "oferente",
         ubicacion |-> Lugar]}

\* The registrations whose insert is pending.
PendingInserts == {p \in Procs : procs[p].pc = "newUser.save"}

\* createUser up to the insert of `await newUser.save()`.
RegisterRead(p, body) ==
  LET pre == CreateUserPrepare(body)
  IN /\ FreeSlot(p)
     /\ IF ~pre.proceed
        THEN /\ req' = [op |-> "createUser", user |-> 0, id |-> 0, body |-> body]
             /\ res' = pre.res
             /\ UNCHANGED procs
        ELSE /\ Len(users) + Cardinality(PendingInserts) < MaxUsers
             /\ procs' = [procs EXCEPT ![p] = [pc |-> "newUser.save", body |-> body,
                                                doc |-> pre.doc]]
             /\ UNCHANGED <<req, res>>
     /\ UNCHANGED <<users, services>>

\* The pending insert of a registration reaches the store, and the handler
\* answers.
RegisterInsert(p) ==
  LET out == CreateUserInsert(procs[p].doc)
  IN /\ procs[p].pc = "newUser.save"
     /\ req' = [op |-> "createUser", user |-> 0, id |-> 0, body |-> procs[p].body]
     /\ res' = out.res
     /\ users' = IF out.doc # EmptyDoc THEN Append(users, out.doc) ELSE users
     /\ procs' = [procs EXCEPT ![p] = Idle]
     /\ UNCHANGED services

NextConcRegister ==
  \/ \E p \in Procs, body \in ConcRegisterBodies : RegisterRead(p, body)
  \/ \E p \in Procs : RegisterInsert(p)

SpecConcRegister == Init /\ [][NextConcRegister]_vars

(***************************************************************************)
(* Properties of the listing lifecycle (SpecLifecycle).                    *)
(***************************************************************************)
AllowedTransitions ==
  {<<"pendiente", "en progreso">>, <<"en progreso", "completado">>, <<"en progreso", "pendiente">>}

\* The request of this step addresses a stored listing.
OnStoredService(op) == req'.op = op /\ req'.id \in DOMAIN services

\* C1: a changeStatus request by the owner, with a current and a requested
\* status among the three valid values, is answered 200 and stores the
\* requested status exactly for pendiente -> en progreso, en progreso ->
\* completado and en progreso -> pendiente; for every other pair, equal
\* states included, it is answered 400 with the message naming both states
\* and the stored listing is unchanged.
C1_StatusChangeFollowsTable ==
  [][(/\ OnStoredService("updateServiceStatus")
      /\ req'.body.nuevoEstado \in Estados
      /\ services[req'.id].creadoPor = req'.user)
     => LET from == services[req'.id].estado
            to == req'.body.nuevoEstado
        IN IF <<from, to>> \in AllowedTransitions
           THEN /\ res'.code = 200
                /\ services' = [services EXCEPT ![req'.id].estado = to]
           ELSE /\ res'.code = 400
                /\ res'.message = <<"No se puede cambiar de estado", from, to>>
                /\ services' = services]_vars

\* C1 witness: the owner asked to complete an already completed listing and
\* was refused; the listing got there by two accepted transitions.
C1_Witness ==
  /\ req.op = "updateServiceStatus"
  /\ req.id \in DOMAIN services
  /\ services[req.id].creadoPor = req.user
  /\ res.code = 400
  /\ res.message = <<"No se puede cambiar de estado", "completado", "completado">>

\* C2: every change of a listing's stored status, by any request, is one of
\* the three transitions of the table.
C2_EveryStatusChangeInTable ==
  [][\A id \in DOMAIN services :
       services'[id].estado # services[id].estado
       => <<services[id].estado, services'[id].estado>> \in AllowedTransitions]_vars

\* C3: once a listing's stored status is completado, no request changes its
\* status or any other of its fields.
C3_CompletedIsTerminal ==
  [][\A id \in DOMAIN services :
       services[id].estado = "completado" => services'[id] = services[id]]_vars

\* C3 witness: the owner's content update on a completed listing was refused.
C3_Witness ==
  /\ req.op = "updateService"
  /\ req.id \in DOMAIN services
  /\ services[req.id].estado = "completado"
  /\ services[req.id].creadoPor = req.user
  /\ res.code = 400

\* C4: no request changes the stored owner of a listing.
C4_OwnerImmutable ==
  [][\A id \in DOMAIN services : services'[id].creadoPor = services[id].creadoPor]_vars

\* C5: an update request, and a changeStatus request to one of the three
\* valid values, on a stored listing by a user who is not its owner is
\* answered 403, whatever the listing's status, and leaves the listings
\* unchanged.
C5_NonOwnerForbidden ==
  [][(/\ \/ OnStoredService("updateService")
         \/ OnStoredService("updateServiceStatus") /\ req'.body.nuevoEstado \in Estados
      /\ services[req'.id].creadoPor # req'.user)
     => (res'.code = 403 /\ services' = services)]_vars

\* C5 witness: a non-owner asked for a status change on a listing that is
\* in progress and got 403.
C5_Witness ==
  /\ req.op = "updateServiceStatus"
  /\ req.id \in DOMAIN services
  /\ services[req.id].creadoPor # req.user
  /\ services[req.id].estado = "en progreso"
  /\ req.body.nuevoEstado = "completado"
  /\ res.code = 403

ConflictMessage == <<"Solo se pueden editar servicios en estado pendiente">>

\* C6 as stated: an update is answered 200 only on a pending listing, and an
\* update on a listing that is not pending is answered with the conflict
\* whoever the requester is, the listing unchanged.
C6_ConflictWhoeverAsks ==
  [][OnStoredService("updateService")
     => /\ res'.code = 200 => services[req'.id].estado = "pendiente"
        /\ services[req'.id].estado # "pendiente"
           => (res'.code = 400 /\ res'.message = ConflictMessage /\ services' = services)]_vars

\* C6 amended: an update is answered 200 only on a pending listing; an
\* update on a listing that is not pending leaves it unchanged and is
\* answered with the conflict (400) when the requester is the owner and
\* with the authorization error (403) when the requester is not.
C6_ConflictForOwnerForbiddenForOthers ==
  [][OnStoredService("updateService")
     => /\ res'.code = 200 => services[req'.id].estado = "pendiente"
        /\ services[req'.id].estado # "pendiente"
           => /\ services' = services
              /\ IF services[req'.id].creadoPor = req'.user
                 THEN res'.code = 400 /\ res'.message = ConflictMessage
                 ELSE res'.code = 403]_vars

\* C6 witness: the owner's update on a listing in progress got the conflict.
C6_Witness ==
  /\ req.op = "updateService"
  /\ req.id \in DOMAIN services
  /\ services[req.id].estado = "en progreso"
  /\ services[req.id].creadoPor = req.user
  /\ res.code = 400
  /\ res.message = ConflictMessage

\* C13: a create request that is answered 201 stores one new listing whose
\* owner is the authenticated user of the request, whatever owner value the
\* body carries.
C13_OwnerIsAuthenticatedUser ==
  [][(req'.op = "createService" /\ res'.code = 201)
     => /\ Len(services') = Len(services) + 1
        /\ services'[Len(services')].creadoPor = req'.user
        /\ res'.data.service.creadoPor._id = req'.user]_vars

\* C13 witness: a create request whose body named another user as owner was
\* answered 201, and the stored owner is the requester.
C13_Witness ==
  /\ req.op = "createService"
  /\ res.code = 201
  /\ Has(req.body, "creadoPor")
  /\ req.body.creadoPor # req.user
  /\ services[Len(services)].creadoPor = req.user

(***************************************************************************)
(* Properties of requests in flight together (SpecConc).                   *)
(***************************************************************************)

\* C7: when changeStatus requests on one listing are in flight together,
\* every save is a transition of the table from the status that is stored
\* when the save is applied, and no step moves a listing out of completado.
C7_SaveIsTransitionFromStoredStatus ==
  [][/\ \A p \in Procs :
          (procs[p].pc = "save" /\ procs'[p] = Idle)
          => <<services[procs[p].id].estado, procs[p].nuevoEstado>> \in AllowedTransitions
     /\ \A id \in DOMAIN services :
          services[id].estado = "completado" => services'[id].estado = "completado"]_vars

\* The fields of a listing other than its status.
Content(d) == Omit(d, {"estado"})

\* C8: the content write of an update request is never applied to a listing
\* whose stored status is not pendiente.
C8_NoContentWriteAfterPending ==
  [][\A id \in DOMAIN services :
       services[id].estado # "pendiente" => Content(services'[id]) = Content(services[id])]_vars

(***************************************************************************)
(* Properties of registration (SpecRegister).                              *)
(***************************************************************************)

\* C9: a registration whose email equals a stored user's email ignoring
\* case is answered 400 and stores nothing; no two stored users have the
\* same lower-cased email, and every stored email is lower-case.
C9_DuplicateEmailRejected ==
  /\ [](\A i \in DOMAIN users :
          /\ users[i].email = ToLowerCase(users[i].email)
          /\ \A j \in DOMAIN users :
               ToLowerCase(users[i].email) = ToLowerCase(users[j].email) => i = j)
  /\ [][(/\ req'.op = "createUser"
         /\ Has(req'.body, "email")
         /\ \E i \in DOMAIN users : ToLowerCase(users[i].email) = ToLowerCase(req'.body.email))
        => (res'.code = 400 /\ users' = users)]_vars

\* C9 witness: "A" was registered after "a" and refused as already registered.
C9_Witness ==
  /\ req.op = "createUser"
  /\ Has(req.body, "email")
  /\ req.body.email = <<"A">>
  /\ \E i \in DOMAIN users : users[i].email = <<"a">>
  /\ res.code = 400
  /\ res.message = <<"El email ya está registrado">>

(***************************************************************************)
(* Properties of the API as a whole (Spec).                                *)
(***************************************************************************)

\* The user objects serialized in a response: data.user, the elements of
\* data.users, and the joined owner of data.service and of each element of
\* data.services.
UserObjects(r) ==
  (IF Has(r.data, "user") THEN {r.data.user} ELSE {})
  \cup (IF Has(r.data, "users") THEN {r.data.users[i] : i \in DOMAIN r.data.users} ELSE {})
  \cup (IF Has(r.data, "service") THEN {r.data.service.creadoPor} ELSE {})
  \cup (IF Has(r.data, "services")
        THEN {r.data.services[i].creadoPor : i \in DOMAIN r.data.services}
        ELSE {})

GenericLoginFailure == Fail(401, "Credenciales inválidas")

\* C11: a login that carries an email and a password and is not answered
\* with a session is answered with the one generic failure (401,
\* "Credenciales inválidas", no data), whether or not a user with that email
\* is stored: the two cases cannot be told apart.
C11_LoginFailureIsGeneric ==
  [][(/\ req'.op = "login"
      /\ SeqTruthy(req'.body, "email")
      /\ SeqTruthy(req'.body, "password")
      /\ res'.code # 200)
     => res' = GenericLoginFailure]_vars

(***************************************************************************)
(* Properties of the authorization gate (SpecGate).                        *)
(***************************************************************************)

\* The token verifies and names a stored user.
TokenAccepted(token) ==
  /\ token.kind = "jwt"
  /\ token.secret = "JWT_SECRET"
  /\ token.age = "fresh"
  /\ token.payload.userId \in DOMAIN users

ProtectedOps ==
  {"updateUser", "changePassword", "getMe", "createService", "updateService", "updateServiceStatus"}

\* C12: on each protected route a request whose token is missing,
\* malformed, expired, wrongly signed or names no stored user is answered
\* with the authentication error and changes neither collection; a handler
\* of a protected route runs only for a request the gate accepted, as the
\* stored user its token names.
C12_GateBeforeHandler ==
  [][/\ \A token \in TokenInputs :
          (ProtectedRequest(token) /\ ~TokenAccepted(token))
          => (res' = AuthError /\ users' = users /\ services' = services)
     /\ (req'.op \in ProtectedOps /\ ~Has(req', "token")) => req'.user \in DOMAIN users]_vars

\* C12 witness: a status change on a stored pending listing, presented with
\* the owner's expired token, ended at the gate.
C12_Witness ==
  /\ req.op = "updateServiceStatus"
  /\ Has(req, "token")
  /\ req.token = SignedToken(1, "JWT_SECRET", "expired")
  /\ req.id \in DOMAIN services
  /\ services[req.id].creadoPor = 1
  /\ services[req.id].estado = "pendiente"
  /\ req.body.nuevoEstado = "en progreso"
  /\ res = AuthError

(***************************************************************************)
(* Properties of the account handlers (SpecAccount).                       *)
(***************************************************************************)

\* The password change of this step reached the handler and addresses a
\* stored user.
OnStoredUser(op) == req'.op = op /\ ~Has(req', "token") /\ req'.id \in DOMAIN users

\* C14: a password change on a stored user whose current password does not
\* match the stored hash, or that lacks one of the two fields, or whose new
\* password is shorter than the minimum, is answered 400 and leaves the
\* stored users unchanged.
C14_RejectedChangeIsValidationError ==
  [][(/\ OnStoredUser("changePassword")
      /\ \/ ~SeqTruthy(req'.body, "currentPassword")
         \/ ~SeqTruthy(req'.body, "newPassword")
         \/ Len(req'.body.newPassword) < PasswordMinLength
         \/ users[req'.id].password # BcryptHash(req'.body.currentPassword))
     => (res'.code = 400 /\ users' = users)]_vars

\* C15: a profile update never changes a stored password, whatever the body
\* carries, and a body that carries a password next to valid fields is
\* answered as the same body without it: 200.
C15_UpdateKeepsCredential ==
  [][OnStoredUser("updateUser")
     => /\ \A i \in DOMAIN users : users'[i].password = users[i].password
        /\ SeqTruthy(req'.body, "password") => res'.code = 200]_vars

\* C16: every stored password is the hash of a plaintext (not a plaintext,
\* not the hash of a hash); a registration stores the hash of the password it
\* carries, a password change answered 200 stores the hash of the new
\* password, and every other step leaves each stored password identical.
C16_CredentialIsSingleHash ==
  /\ [](\A i \in DOMAIN users : \E p \in PasswordInputs : users[i].password = BcryptHash(p))
  /\ [][\A i \in DOMAIN users' :
          IF i \notin DOMAIN users
          THEN users'[i].password = BcryptHash(req'.body.password)
          ELSE IF req'.op = "changePassword" /\ req'.id = i /\ res'.code = 200
          THEN users'[i].password = BcryptHash(req'.body.newPassword)
          ELSE users'[i].password = users[i].password]_vars

(***************************************************************************)
(* Properties of the location handling (SpecLocation).                     *)
(***************************************************************************)

\* The update of this step reached the treatment of the location: a user
\* update on a stored user, or a listing update by the owner of a stored
\* pending listing.
LocationStep ==
  \/ OnStoredUser("updateUser")
  \/ /\ req'.op = "updateService"
     /\ ~Has(req', "token")
     /\ req'.id \in DOMAIN services
     /\ services[req'.id].creadoPor = req'.user
     /\ services[req'.id].estado = "pendiente"

\* The record the update of this step addresses, before and after the step.
RecordBefore == IF req'.op = "updateUser" THEN users[req'.id] ELSE services[req'.id]

RecordAfter == IF req'.op = "updateUser" THEN users'[req'.id] ELSE services'[req'.id]

\* C17: in user update and listing update a supplied location has exactly
\* one of three outcomes.  Coordinates absent, empty or both null: answered
\* 200 and the stored record has no location, its other fields unchanged.
\* Two coordinates with longitude in [-180, 180] and latitude in [-90, 90]:
\* answered 200 and the stored location is {type: Point, coordinates: [lon,
\* lat]}.  Any other shape: answered 400 and the record is unchanged.
C17_LocationOutcomes ==
  [][(LocationStep /\ Has(req'.body, "ubicacion"))
     => LET loc == req'.body.ubicacion
        IN IF \/ ~Has(loc, "coordinates")
              \/ loc.coordinates = <<>>
              \/ loc.coordinates = <<JsonNull, JsonNull>>
           THEN /\ res'.code = 200
                /\ ~Has(RecordAfter, "ubicacion")
                /\ RecordAfter = Omit(RecordBefore, {"ubicacion"})
           ELSE IF /\ Len(loc.coordinates) = 2
                   /\ loc.coordinates[1] \in -180..180
                   /\ loc.coordinates[2] \in -90..90
           THEN /\ res'.code = 200
                /\ RecordAfter = ("ubicacion" :> [type |-> "Point", coordinates |-> loc.coordinates])
                                 @@ RecordBefore
           ELSE /\ res'.code = 400
                /\ RecordAfter = RecordBefore]_vars

\* A longitude and a latitude within their ranges.
ValidPair(c) == Len(c) = 2 /\ c[1] \in -180..180 /\ c[2] \in -90..90

\* C18: a registration with a new email and a valid coordinate pair is
\* answered 201 and stores the location {type: Point, coordinates: [lon,
\* lat]} with the same two values; one without a location is answered 201
\* and stores a record with no location; a fetch of a stored user returns
\* the stored record (without its password), so the same location or none.
C18_LocationRoundTrip ==
  [][/\ (/\ req'.op = "createUser"
         /\ ~\E i \in DOMAIN users : users[i].email = ToLowerCase(req'.body.email)
         /\ Has(req'.body, "ubicacion") => ValidPair(req'.body.ubicacion.coordinates))
        => /\ res'.code = 201
           /\ Len(users') = Len(users) + 1
           /\ IF Has(req'.body, "ubicacion")
              THEN users'[Len(users')].ubicacion
                     = [type |-> "Point", coordinates |-> req'.body.ubicacion.coordinates]
              ELSE ~Has(users'[Len(users')], "ubicacion")
     /\ (req'.op = "getUserById" /\ req'.id \in DOMAIN users)
        => /\ res'.code = 200
           /\ res'.data.user = Omit(users[req'.id], {"password"})]_vars

(***************************************************************************)
(* The list requests                                                       *)
(***************************************************************************)
\* The stored records a list request with these query parameters matches.
UsersMatching(q) ==
  {i \in DOMAIN users : q.rol \in Roles => users[i].rol = q.rol}

ServicesMatching(q) ==
  {i \in DOMAIN services :
     /\ q.categoria # "" => services[i].categoria = q.categoria
     /\ q.estado \in Estados => services[i].estado = q.estado}

\* The number of records page holds when total records match.
PageLength(total, page, size) ==
  LET rest == total - (page - 1) * size
  IN IF rest <= 0 THEN 0 ELSE IF rest < size THEN rest ELSE size

\* The pagination object for total matches, page and size; n is the total the
\* object reports and shown the number of records in the response.
PaginationHolds(p, n, shown, total, page, size) ==
  /\ p.currentPage = page
  /\ n = total
  /\ (p.totalPages - 1) * size < total
  /\ total <= p.totalPages * size
  /\ p.hasPrev = (page > 1)
  /\ p.hasNext = ((page - 1) * size + size < total)
  /\ p.hasNext = (p.currentPage < p.totalPages)
  /\ shown = PageLength(total, page, size)

FinalQueryKeys(q) ==
  {f \in {"categoria"} : q.categoria # ""}
  \cup {f \in {"estado"} : q.estado # "" /\ q.estado \in Estados}
  \cup {f \in {"ubicacion"} : GeoQueryApplies(q.ubicacion)}

\* C20: in the answer of the listing list request, a categoria, estado or
\* ubicacion value is in the echoed filters exactly when it was part of the
\* query whose results the answer returns.
C20_EchoedFiltersWereApplied ==
  [][(req'.op = "getServices" /\ res'.code = 200)
       => \A f \in {"categoria", "estado", "ubicacion"} :
            Has(res'.data.filters, f) <=> f \in FinalQueryKeys(req'.body)]_vars

(***************************************************************************)
(* Requests on ids of no stored record                                     *)
(***************************************************************************)
\* C21: a request that addresses a user or a listing by an id of no stored
\* record (get user, update user, change password, get listing, update
\* listing, change of state with a valid state) is answered 404.
C21_MissingIdIsNotFound ==
  [][/\ (req'.op \in {"getUserById", "updateUser", "changePassword"}
         /\ req'.id \notin DOMAIN users)
        => res'.code = 404
     /\ (req'.op \in {"getServiceById", "updateService"} /\ req'.id \notin DOMAIN services)
        => res'.code = 404
     /\ (req'.op = "updateServiceStatus" /\ req'.body.nuevoEstado \in Estados
         /\ req'.id \notin DOMAIN services)
        => res'.code = 404]_vars

(***************************************************************************)
(* Login                                                                   *)
(***************************************************************************)
\* C22: login hands out a token only when a stored user has the lower-cased
\* email and the password is the one the stored hash was made of; the token
\* then names that user and the answer carries the user without password.
\* A login without email or without password is answered 400 with no token.
C22_TokenOnlyForMatchingCredentials ==
  [][req'.op = "login"
       => /\ Has(res'.data, "token")
               => /\ res'.code = 200
                  /\ Has(req'.body, "email")
                  /\ Has(req'.body, "password")
                  /\ \E i \in DOMAIN users :
                       /\ users[i].email = ToLowerCase(req'.body.email)
                       /\ users[i].password = BcryptHash(req'.body.password)
                       /\ res'.data.token.userId = i
                       /\ res'.data.user = Omit(users[i], {"password"})
          /\ (~SeqTruthy(req'.body, "email") \/ ~SeqTruthy(req'.body, "password"))
               => /\ res'.code = 400
                  /\ ~Has(res'.data, "token")]_vars

\* A login with the email in upper case has been handed the token of the
\* user registered with it in lower case.
C22_Witness ==
  /\ req.op = "login"
  /\ req.body.email = <<"A">>
  /\ res.code = 200
  /\ \E i \in DOMAIN users : users[i].email = <<"a">> /\ res.data.token.userId = i

(***************************************************************************)
(* The state of a listing from its creation                                *)
(***************************************************************************)
\* C23: a listing enters the store in state pendiente whatever the create
\* body says, and the state of a stored listing changes only in a request
\* that addresses that listing (updateService or updateServiceStatus on its
\* id).
C23_CreatedPendingChangedOnlyByRequestOnIt ==
  [][/\ \A i \in DOMAIN services' \ DOMAIN services : services'[i].estado = "pendiente"
     /\ \A i \in DOMAIN services :
          services'[i].estado # services[i].estado
            => /\ req'.op \in {"updateService", "updateServiceStatus"}
               /\ req'.id = i]_vars

\* A create whose body asks for state completado has stored a listing, and it
\* is pending.
C23_Witness ==
  /\ req.op = "createService"
  /\ Has(req.body, "estado")
  /\ req.body.estado = "completado"
  /\ res.code = 201
  /\ services # <<>>
  /\ services[Len(services)].estado = "pendiente"

(***************************************************************************)
(* The order of the checks of updateServiceStatus                          *)
(***************************************************************************)
\* The one answer the ordered checks give to a request for state to on the
\* listing id by user u: "invalid", "missing", "forbidden", "changed" or
\* "refused".
StatusOutcome(u, id, to) ==
  IF to \notin Estados THEN "invalid"
  ELSE IF id \notin DOMAIN services THEN "missing"
  ELSE IF services[id].creadoPor # u THEN "forbidden"
  ELSE IF <<services[id].estado, to>> \in AllowedTransitions THEN "changed"
  ELSE "refused"

\* C24: updateServiceStatus answers by the first check that fails, in the
\* order: requested state not one of the three (400, also for a missing
\* listing and for a user who is not the owner), listing missing (404), user
\* not the owner (403, also for a transition outside the table), transition
\* outside the table (400); otherwise the state changes (200).
C24_StatusChecksInOrder ==
  [][(req'.op = "updateServiceStatus" /\ ~Has(req', "token"))
       => LET outcome == StatusOutcome(req'.user, req'.id, req'.body.nuevoEstado)
          IN /\ outcome = "invalid"
                  => /\ res'.code = 400
                     /\ res'.message
                          = <<"Estado inválido. Debe ser: pendiente, en progreso o completado">>
             /\ outcome = "missing" => res'.code = 404
             /\ outcome = "forbidden" => res'.code = 403
             /\ outcome = "refused"
                  => /\ res'.code = 400
                     /\ res'.message = <<"No se puede cambiar de estado",
                                         services[req'.id].estado, req'.body.nuevoEstado>>
             /\ outcome = "changed" => res'.code = 200]_vars

(***************************************************************************)
(* The phone of a user                                                     *)
(***************************************************************************)
\* C25: an update of a stored user whose telefono is present and empty after
\* trimming leaves the stored user without a phone value (an empty text is
\* taken for no value).
C25_EmptyPhoneClearsPhone ==
  [][(/\ req'.op = "updateUser"
      /\ ~Has(req', "token")
      /\ req'.id \in DOMAIN users
      /\ Has(req'.body, "telefono")
      /\ Trim(req'.body.telefono) = <<>>)
     => \/ ~Has(users'[req'.id], "telefono")
        \/ users'[req'.id].telefono = <<>>]_vars

(***************************************************************************)
(* The stored listings                                                     *)
(***************************************************************************)
\* C26: every stored listing has a state among the three, a category among
\* the eleven, a price >= 0, an estimated duration >= 1, a currency and a
\* duration unit of their enums, and no location or one of exactly two
\* coordinates with longitude in [-180, 180] and latitude in [-90, 90].
C26_StoredListingsAreValid ==
  \A i \in DOMAIN services :
    LET d == services[i]
    IN /\ d.estado \in Estados
       /\ d.categoria \in Categorias
       /\ d.precio >= 0
       /\ d.duracionEstimada >= 1
       /\ d.moneda \in Monedas
       /\ d.unidadDuracion \in UnidadesDuracion
       /\ Has(d, "ubicacion")
            => /\ Len(d.ubicacion.coordinates) = 2
               /\ d.ubicacion.coordinates[1] >= -180 /\ d.ubicacion.coordinates[1] <= 180
               /\ d.ubicacion.coordinates[2] >= -90 /\ d.ubicacion.coordinates[2] <= 90

C28_NewPasswordLogsInUntilNextChange ==
  [][LET changed == req'.op = "changePassword" /\ ~Has(req', "token") /\ res'.code = 200
     IN /\ changed => users'[req'.id].password = BcryptHash(req'.body.newPassword)
        /\ ~changed => \A i \in DOMAIN users : users'[i].password = users[i].password
        /\ (req'.op = "login" /\ Has(req'.body, "email") /\ Has(req'.body, "password"))
             => \A i \in DOMAIN users :
                  users[i].email = req'.body.email
                    => res'.code = IF users[i].password = BcryptHash(req'.body.password)
                                   THEN 200 ELSE 401]_vars

(***************************************************************************)
(* On whose behalf a user record changes                                   *)
(***************************************************************************)
\* C29: an update of a user or a change of password that the gate accepted
\* for one stored user and whose path names another stored user leaves the
\* addressed user's record, profile and credential, as it was.
C29_OnlyTheUserChangesTheirRecord ==
  [][(/\ req'.op \in {"updateUser", "changePassword"}
      /\ ~Has(req', "token")
      /\ req'.id \in DOMAIN users
      /\ req'.user # req'.id)
       => users'[req'.id] = users[req'.id]]_vars

(***************************************************************************)
(* Properties of registrations in flight together (SpecConcRegister).      *)
(***************************************************************************)
\* C30: of two registrations in flight with emails equal ignoring case, the
\* one whose insert reaches the store first is answered 201 and stored when
\* no stored user holds the email; an insert that finds the email stored,
\* the second of the two among them, is answered 400 'El email ya está
\* registrado' and stores nothing; after either insert exactly one stored
\* user holds that email.
C30_OneOfTwoConcurrentRegistrations ==
  [][\A p \in Procs :
       (procs[p].pc = "newUser.save" /\ procs'[p] = Idle)
       => LET email == procs[p].doc.email
              stored == \E i \in DOMAIN users : users[i].email = email
              together == \E q \in Procs \ {p} :
                            procs[q].pc = "newUser.save" /\ procs[q].doc.email = email
          IN /\ stored => /\ res'.code = 400
                          /\ res'.message = <<"El email ya está registrado">>
                          /\ users' = users
             /\ (together /\ ~stored) => /\ res'.code = 201
                                         /\ Len(users') = Len(users) + 1
             /\ (together \/ stored)
                  => Cardinality({i \in DOMAIN users' : users'[i].email = email}) = 1]_vars

====
